---- MODULE Spec2Model ----
(***************************************************************************)
(* The daily task tracker of app.py: the tasks and progress tables of the  *)
(* SQLite store, the operations on them, the Today's Tasks page handler,   *)
(* and the statistics views computed from the tables.                      *)
(*                                                                         *)
(* A date string 'YYYY-MM-DD' is written as the integer YYYYMMDD: both     *)
(* order the same way, and the fields are read back by position as         *)
(* strptime / to_datetime read them.  The completed column holds 0 or 1,   *)
(* as int(completed) stores it.  A float is a record [nan, num, den]: the  *)
(* exact quotient num/den, or NaN.                                         *)
(***************************************************************************)
EXTENDS Integers, Sequences, FiniteSets, TLC

VARIABLES
    tasks,      \* the tasks table: a set of rows [id, day, task]
    seq,        \* the AUTOINCREMENT counter of tasks.id: the largest id ever given
    progress,   \* the progress table: a set of rows [date, task_id, completed]
    pc,         \* "idle", or "rerun" while st.rerun() of the Today's Tasks page is pending
    last        \* the operation that ran last: [op, n], n the rows it deleted or wrote

vars == <<tasks, seq, progress, pc, last>>

---------------------------------------------------------------------------
(* Bounds of the model.                                                    *)

\* the largest number of rows of the progress table under Spec
MaxRows == 3

\* the largest task id add_task may hand out under SpecRank
RankMaxTasks == 7

\* the dates the operations are called with: a Sunday of ISO week 53, a Monday
\* and a Wednesday of the same ISO week 1, and a Wednesday of week 1 a year later
Dates == {20210103, 20240101, 20240103, 20250101}

\* the task ids the operations are called with under Spec, and the largest of
\* them, past which add_task is not called
TaskIds == {1, 2}

\* the (weekday, description) pairs add_task is called with under Spec
TaskInputs == {<<"Monday", "a">>, <<"Wednesday", "b">>}

\* the one date and the descriptions used under SpecRank: the i-th task is
\* given its own description, and the second and third may share the first's
RankDates == {20240101}

RankDescs == <<"d1", "d2", "d3", "d4", "d5", "d6", "d7", "d8", "d9">>

RankDescChoices(i) == IF i <= 3 THEN {RankDescs[1], RankDescs[i]} ELSE {RankDescs[i]}

---------------------------------------------------------------------------
(* Dates.                                                                  *)

\* the weekday names, in the order of the selectbox and of the Daywise reindex
Days == <<"Monday", "Tuesday", "Wednesday", "Thursday", "Friday", "Saturday", "Sunday">>

\* the weekday names in the ascending (alphabetical) order groupby sorts them in
SortedDayNames == <<"Friday", "Monday", "Saturday", "Sunday", "Thursday", "Tuesday", "Wednesday">>

Year(date_str) == date_str \div 10000

Month(date_str) == (date_str \div 100) % 100

Day(date_str) == date_str % 100

IsLeap(y) == (y % 4 = 0) /\ ((y % 100 # 0) \/ (y % 400 = 0))

DaysInMonth(y, m) ==
    IF m = 2 THEN (IF IsLeap(y) THEN 29 ELSE 28)
    ELSE IF m \in {4, 6, 9, 11} THEN 30 ELSE 31

RECURSIVE DaysBeforeMonth(_, _)
DaysBeforeMonth(y, m) ==
    IF m <= 1 THEN 0 ELSE DaysBeforeMonth(y, m - 1) + DaysInMonth(y, m - 1)

DaysBeforeYear(y) ==
    365 * (y - 1) + ((y - 1) \div 4) - ((y - 1) \div 100) + ((y - 1) \div 400)

\* the parsed date: the proleptic Gregorian ordinal of the day (0001-01-01 is 1)
to_datetime(date_str) ==
    DaysBeforeYear(Year(date_str)) + DaysBeforeMonth(Year(date_str), Month(date_str))
        + Day(date_str)

\* Monday is 0, Sunday is 6
weekday(ord) == (ord + 6) % 7

\* strftime('%A') and dt.day_name()
day_name(ord) == Days[weekday(ord) + 1]

\* the ordinal of January 1st of the year of ord
Jan1(y) == DaysBeforeYear(y) + 1

\* the Monday that starts ISO week 1 of year y: the week of the first Thursday
IsoWeek1Monday(y) ==
    LET firstweekday == weekday(Jan1(y))
        monday == Jan1(y) - firstweekday
    IN  IF firstweekday > 3 THEN monday + 7 ELSE monday

\* dt.isocalendar().week of the date with year y and ordinal ord
IsoWeekOf(y, ord) ==
    LET week == (ord - IsoWeek1Monday(y)) \div 7
    IN  IF week < 0 THEN ((ord - IsoWeek1Monday(y - 1)) \div 7) + 1
        ELSE IF week >= 52 /\ ord >= IsoWeek1Monday(y + 1) THEN 1
        ELSE week + 1

\* a week number qualified by the calendar year, as a year-aware grouping has it
isocalendar_year_week(date_str) ==
    Year(date_str) * 100 + IsoWeekOf(Year(date_str), to_datetime(date_str))

isocalendar_week(date_str) == IsoWeekOf(Year(date_str), to_datetime(date_str))

---------------------------------------------------------------------------
(* The store: SQL statements as operators on the tables.                   *)

\* SELECT id, task FROM tasks WHERE day = ?
get_tasks(T, day) == {t \in T : t.day = day}

\* INSERT INTO tasks(day, task): the id is one more than the largest ever given
insert_task(T, id, day, task) == T \cup {[id |-> id, day |-> day, task |-> task]}

\* DELETE FROM tasks WHERE id = ?
delete_from_tasks(T, task_id) == {t \in T : t.id # task_id}

\* int(completed)
int(completed) == IF completed THEN 1 ELSE 0

\* bool(completed)
bool(completed) == completed # 0

\* a plain INSERT into a table without the primary key: the old row stays
insert_append(P, date, task_id, completed) ==
    P \cup {[date |-> date, task_id |-> task_id, completed |-> int(completed)]}

\* INSERT OR REPLACE INTO progress: the row of the same (date, task_id), the
\* primary key, is deleted and the new row inserted
insert_or_replace(P, date, task_id, completed) ==
    {r \in P : ~(r.date = date /\ r.task_id = task_id)}
        \cup {[date |-> date, task_id |-> task_id, completed |-> int(completed)]}

\* UPDATE progress SET completed = 0 WHERE date = ?: the rows stay, as false
update_set_false(P, date) ==
    {r \in P : r.date # date}
        \cup {[date |-> r.date, task_id |-> r.task_id, completed |-> 0] :
                 r \in {q \in P : q.date = date}}

\* DELETE FROM progress WHERE date = ?
delete_where_date(P, date) == {r \in P : r.date # date}

\* get_progress: the mapping task_id -> bool(completed) of the rows of a date
get_progress(P, date) ==
    [id \in {r.task_id : r \in {q \in P : q.date = date}} |->
        bool((CHOOSE r \in P : r.date = date /\ r.task_id = id).completed)]

\* progress.get(task_id, False)
progress_get(prog, task_id) == IF task_id \in DOMAIN prog THEN prog[task_id] ELSE FALSE

Last(op, n) == [op |-> op, n |-> n]

---------------------------------------------------------------------------
(* The operations.                                                         *)

Init ==
    /\ tasks = {}
    /\ seq = 0
    /\ progress = {}
    /\ pc = "idle"
    /\ last = Last("main", 0)

add_task(day, task) ==
    /\ pc = "idle"
    /\ tasks' = insert_task(tasks, seq + 1, day, task)
    /\ seq' = seq + 1
    /\ last' = Last("add_task", 1)
    /\ UNCHANGED <<progress, pc>>

\* a delete that cascades to the progress rows of the task
delete_task_cascade(task_id) ==
    /\ pc = "idle"
    /\ tasks' = delete_from_tasks(tasks, task_id)
    /\ progress' = {r \in progress : r.task_id # task_id}
    /\ last' = Last("delete_task", Cardinality(tasks) - Cardinality(tasks'))
    /\ UNCHANGED <<seq, pc>>

delete_task(task_id) ==
    /\ pc = "idle"
    /\ tasks' = delete_from_tasks(tasks, task_id)
    /\ last' = Last("delete_task", Cardinality(tasks) - Cardinality(tasks'))
    /\ UNCHANGED <<seq, progress, pc>>

update_progress(date, task_id, completed) ==
    /\ pc = "idle"
    /\ progress' = insert_or_replace(progress, date, task_id, completed)
    /\ last' = Last("update_progress", 1)
    /\ UNCHANGED <<tasks, seq, pc>>

reset_progress(date) ==
    /\ pc = "idle"
    /\ progress' = delete_where_date(progress, date)
    /\ last' = Last("reset_progress", Cardinality(progress) - Cardinality(progress'))
    /\ UNCHANGED <<tasks, seq, pc>>

reset_all_progress ==
    /\ pc = "idle"
    /\ progress' = {}
    /\ last' = Last("reset_all_progress", Cardinality(progress))
    /\ UNCHANGED <<tasks, seq, pc>>

---------------------------------------------------------------------------
(* The statistics engine.                                                  *)

Float(num, den) == [nan |-> FALSE, num |-> num, den |-> den]

NaN == [nan |-> TRUE, num |-> 0, den |-> 1]

\* calculate_statistics' result when the table is empty
None == [none |-> TRUE]

\* a table of rows held as a list, its rows computed once
Rows(f) == f \o <<>>

\* the rows of a table as cursor.fetchall() lists them; the order of a SELECT
\* without ORDER BY is taken to be that of the primary key
RECURSIVE fetchall(_)
fetchall(P) ==
    IF P = {} THEN <<>>
    ELSE LET r == CHOOSE x \in P : \A y \in P :
                      (x.date < y.date) \/ (x.date = y.date /\ x.task_id <= y.task_id)
         IN  <<r>> \o fetchall(P \ {r})

\* the DataFrame of calculate_statistics with its derived columns
DataFrame(data) ==
    Rows([i \in DOMAIN data |->
        [Date      |-> to_datetime(data[i].date),
         Completed |-> data[i].completed,
         Week      |-> isocalendar_week(data[i].date),
         Day_Name  |-> day_name(to_datetime(data[i].date))]])

IndexOf(s, x) == CHOOSE i \in DOMAIN s : s[i] = x

\* the group key of a row: a column, or the pair of columns of the heatmap
GroupKey(row, by) ==
    IF by = "Date,Day_Name" THEN <<row.Date, row.Day_Name>> ELSE row[by]

\* the ascending order of group keys: numbers by value, weekday names
\* alphabetically, pairs by their first then their second column
KeyLess(by, j, k) ==
    IF by = "Day_Name" THEN IndexOf(SortedDayNames, j) < IndexOf(SortedDayNames, k)
    ELSE IF by = "Date,Day_Name"
         THEN (j[1] < k[1]) \/
              (j[1] = k[1] /\ IndexOf(SortedDayNames, j[2]) < IndexOf(SortedDayNames, k[2]))
    ELSE j < k

RECURSIVE SortKeys(_, _)
SortKeys(K, by) ==
    IF K = {} THEN <<>>
    ELSE LET k == CHOOSE x \in K : \A y \in K : ~KeyLess(by, y, x)
         IN  <<k>> \o SortKeys(K \ {k}, by)

\* an aggregation whose count skips the rows with Completed = 0
RECURSIVE agg_count_nonzero(_, _, _, _)
agg_count_nonzero(df, by, k, i) ==
    IF i > Len(df) THEN [sum |-> 0, count |-> 0]
    ELSE LET rest == agg_count_nonzero(df, by, k, i + 1)
         IN  IF GroupKey(df[i], by) = k
             THEN [sum |-> rest.sum + df[i].Completed,
                   count |-> rest.count + df[i].Completed]
             ELSE rest

\* agg({'Completed': ['sum', 'count']}) of the rows i.. of df whose key is k
RECURSIVE agg(_, _, _, _)
agg(df, by, k, i) ==
    IF i > Len(df) THEN [sum |-> 0, count |-> 0]
    ELSE LET rest == agg(df, by, k, i + 1)
         IN  IF GroupKey(df[i], by) = k
             THEN [sum |-> rest.sum + df[i].Completed, count |-> rest.count + 1]
             ELSE rest

\* df.groupby(by).agg(...): one row per key, the keys ascending
groupby(df, by) ==
    LET keys == SortKeys({GroupKey(df[i], by) : i \in DOMAIN df}, by)
    IN  Rows([n \in DOMAIN keys |->
            LET a == agg(df, by, keys[n], 1)
            IN  [key             |-> keys[n],
                 Completed_Tasks |-> a.sum,
                 Total_Tasks     |-> a.count]])

\* (Completed_Tasks / Total_Tasks) * 100
completion_rate(completed_tasks, total_tasks) == Float(completed_tasks * 100, total_tasks)

\* df['Completed'].sum() over the rows i.. of df
RECURSIVE column_sum(_, _)
column_sum(df, i) == IF i > Len(df) THEN 0 ELSE df[i].Completed + column_sum(df, i + 1)

overall_stats(df) ==
    LET total_tasks == Len(df)
        completed_tasks == column_sum(df, 1)
    IN  [total_tasks     |-> total_tasks,
         completed_tasks |-> completed_tasks,
         completion_rate |-> IF total_tasks > 0
                             THEN completion_rate(completed_tasks, total_tasks)
                             ELSE Float(0, 1)]

daily_stats(df) ==
    LET g == groupby(df, "Date")
    IN  Rows([n \in DOMAIN g |->
            [Date                  |-> g[n].key,
             Completed_Tasks       |-> g[n].Completed_Tasks,
             Total_Tasks           |-> g[n].Total_Tasks,
             Daily_Completion_Rate |->
                 completion_rate(g[n].Completed_Tasks, g[n].Total_Tasks)]])

weekly_stats(df) ==
    LET g == groupby(df, "Week")
    IN  Rows([n \in DOMAIN g |->
            [Week                   |-> g[n].key,
             Completed_Tasks        |-> g[n].Completed_Tasks,
             Total_Tasks            |-> g[n].Total_Tasks,
             Weekly_Completion_Rate |->
                 completion_rate(g[n].Completed_Tasks, g[n].Total_Tasks)]])

\* a reindex that fills the rows of the missing labels with 0
reindex_fill_zero(g, labels) ==
    [n \in DOMAIN labels |->
        IF \E m \in DOMAIN g : g[m].key = labels[n]
        THEN LET row == g[CHOOSE m \in DOMAIN g : g[m].key = labels[n]]
             IN  [Day_Name                |-> labels[n],
                  Completed_Tasks         |-> Float(row.Completed_Tasks, 1),
                  Total_Tasks             |-> Float(row.Total_Tasks, 1),
                  Daywise_Completion_Rate |->
                      Float(row.Completed_Tasks * 100, row.Total_Tasks)]
        ELSE [Day_Name                |-> labels[n],
              Completed_Tasks         |-> Float(0, 1),
              Total_Tasks             |-> Float(0, 1),
              Daywise_Completion_Rate |-> Float(0, 1)]]

\* reindex(labels): the row of each label in the order given, a row of NaN for
\* a label the frame lacks; the integer columns become floats
reindex(g, labels) ==
    Rows([n \in DOMAIN labels |->
        IF \E m \in DOMAIN g : g[m].key = labels[n]
        THEN LET row == g[CHOOSE m \in DOMAIN g : g[m].key = labels[n]]
             IN  [Day_Name                |-> labels[n],
                  Completed_Tasks         |-> Float(row.Completed_Tasks, 1),
                  Total_Tasks             |-> Float(row.Total_Tasks, 1),
                  Daywise_Completion_Rate |->
                      completion_rate(row.Completed_Tasks, row.Total_Tasks)]
        ELSE [Day_Name                |-> labels[n],
              Completed_Tasks         |-> NaN,
              Total_Tasks             |-> NaN,
              Daywise_Completion_Rate |-> NaN]])

daywise_stats(df) == reindex(groupby(df, "Day_Name"), Days)

heatmap_data(df) ==
    LET g == groupby(df, "Date,Day_Name")
    IN  Rows([n \in DOMAIN g |->
            [Date            |-> g[n].key[1],
             Day_Name        |-> g[n].key[2],
             Completed_Tasks |-> g[n].Completed_Tasks,
             Total_Tasks     |-> g[n].Total_Tasks]])

statistics(df) ==
    [overall |-> overall_stats(df),
     daily   |-> daily_stats(df),
     weekly  |-> weekly_stats(df),
     daywise |-> daywise_stats(df),
     heatmap |-> heatmap_data(df)]

\* calculate_statistics without the early return on an empty table
calculate_statistics_no_guard(P) == statistics(DataFrame(fetchall(P)))

calculate_statistics(P) ==
    LET data == fetchall(P)
    IN  IF data = <<>> THEN None ELSE statistics(DataFrame(data))

\* SELECT DISTINCT date FROM progress ORDER BY date
RECURSIVE distinct_dates(_)
distinct_dates(D) ==
    IF D = {} THEN <<>>
    ELSE LET d == CHOOSE x \in D : \A y \in D : x <= y
         IN  <<d>> \o distinct_dates(D \ {d})

\* SELECT COUNT(*) FROM progress WHERE date = ? AND completed = 1
count_completed(P, date) == Cardinality({r \in P : r.date = date /\ r.completed = 1})

get_weekly_progress(T, P) ==
    LET dates == distinct_dates({r.date : r \in P})
    IN  Rows([n \in DOMAIN dates |->
            LET total_tasks == Cardinality(get_tasks(T, day_name(to_datetime(dates[n]))))
                completed_tasks == count_completed(P, dates[n])
            IN  [date       |-> dates[n],
                 percentage |-> IF total_tasks > 0
                                THEN Float(completed_tasks * 100, total_tasks)
                                ELSE Float(0, 1)]])

---------------------------------------------------------------------------
(* The frequently-incomplete ranking of show_insights.                     *)

\* LIMIT 5
RankLimit == 5

\* FROM progress JOIN tasks ON progress.task_id = tasks.id WHERE
\* progress.completed = 0: the tasks.task of each joined row from row i on
RECURSIVE incomplete_join(_, _, _)
incomplete_join(T, data, i) ==
    IF i > Len(data) THEN <<>>
    ELSE LET matches == {t \in T : t.id = data[i].task_id}
         IN  (IF data[i].completed = 0 /\ matches # {}
              THEN <<(CHOOSE t \in matches : TRUE).task>>
              ELSE <<>>) \o incomplete_join(T, data, i + 1)

\* COUNT(*) of the joined rows from row i on whose tasks.task is task
RECURSIVE count_rows(_, _, _)
count_rows(joined, task, i) ==
    IF i > Len(joined) THEN 0
    ELSE (IF joined[i] = task THEN 1 ELSE 0) + count_rows(joined, task, i + 1)

\* GROUP BY tasks.task
group_by_task(joined) ==
    {[task |-> joined[i], incomplete_count |-> count_rows(joined, joined[i], 1)] :
        i \in DOMAIN joined}

\* ORDER BY incomplete_count DESC without the LIMIT
RECURSIVE order_by_no_limit(_, _)
order_by_no_limit(G, n) ==
    IF G = {} THEN {<<>>}
    ELSE UNION {{<<g>> \o rest : rest \in order_by_no_limit(G \ {g}, n)} :
                   g \in {x \in G : \A y \in G : y.incomplete_count <= x.incomplete_count}}

\* ORDER BY incomplete_count DESC LIMIT n: every result the query may give, the
\* order among equal counts being left open by SQL
RECURSIVE order_by_limit(_, _)
order_by_limit(G, n) ==
    IF n = 0 \/ G = {} THEN {<<>>}
    ELSE UNION {{<<g>> \o rest : rest \in order_by_limit(G \ {g}, n - 1)} :
                   g \in {x \in G : \A y \in G : y.incomplete_count <= x.incomplete_count}}

incomplete_tasks(T, P) ==
    order_by_limit(group_by_task(incomplete_join(T, fetchall(P), 1)), RankLimit)

---------------------------------------------------------------------------
(* The Today's Tasks page.                                                 *)

\* st.checkbox(task, value=completed): the value shown, or its opposite when
\* the user's click or the widget's kept state differs from it
checkbox(value, flipped) == IF flipped THEN ~value ELSE value

\* a loop that writes a row for the checked tasks only
RECURSIVE update_checked_only(_, _, _, _)
update_checked_only(P, date_str, ids, updated_progress) ==
    IF ids = {} THEN P
    ELSE LET task_id == CHOOSE x \in ids : \A y \in ids : x <= y
             rest == update_checked_only(P, date_str, ids \ {task_id}, updated_progress)
         IN  IF updated_progress[task_id]
             THEN insert_or_replace(rest, date_str, task_id, TRUE)
             ELSE rest

\* the loop over updated_progress.items(): update_progress for every task id
RECURSIVE update_all(_, _, _, _)
update_all(P, date_str, ids, updated_progress) ==
    IF ids = {} THEN P
    ELSE LET task_id == CHOOSE x \in ids : \A y \in ids : x <= y
         IN  update_all(insert_or_replace(P, date_str, task_id, updated_progress[task_id]),
                        date_str, ids \ {task_id}, updated_progress)

\* one run of show_today_tasks at the clock time now: button is whether "Reset
\* Today's Progress" was clicked, flips the checkboxes whose state differs from
\* the stored one.  The run that st.rerun() starts has no button click.
show_today_tasks(now, button, flips) ==
    LET day       == day_name(to_datetime(now))
        date_str  == now
        today     == get_tasks(tasks, day)
        prog      == get_progress(progress, date_str)
        ids       == {t.id : t \in today}
        updated_progress ==
            [id \in ids |-> checkbox(progress_get(prog, id), id \in flips)]
    IN  /\ pc = "rerun" => ~button
        /\ IF button
           THEN /\ progress' = delete_where_date(progress, date_str)
                /\ pc' = "rerun"
                /\ last' = Last("show_today_tasks_reset",
                                Cardinality(progress) - Cardinality(progress'))
           ELSE /\ progress' = IF Cardinality(today) > 0
                               THEN update_all(progress, date_str, ids, updated_progress)
                               ELSE progress
                /\ pc' = "idle"
                /\ last' = Last(IF pc = "rerun" THEN "show_today_tasks_rerun"
                                ELSE "show_today_tasks", Cardinality(today))
        /\ UNCHANGED <<tasks, seq>>

---------------------------------------------------------------------------
(* The specifications.                                                     *)

Next ==
    \/ \E in \in TaskInputs : seq + 1 \in TaskIds /\ add_task(in[1], in[2])
    \/ \E task_id \in TaskIds : delete_task(task_id)
    \/ \E date \in Dates, task_id \in TaskIds, completed \in BOOLEAN :
          update_progress(date, task_id, completed) /\ Cardinality(progress') <= MaxRows
    \/ \E date \in Dates : reset_progress(date)
    \/ reset_all_progress
    \/ \E now \in Dates, button \in BOOLEAN :
          \E flips \in SUBSET {t.id : t \in get_tasks(tasks, day_name(to_datetime(now)))} :
             show_today_tasks(now, button, flips) /\ Cardinality(progress') <= MaxRows

Spec == Init /\ [][Next]_vars

RankIds == 1..RankMaxTasks

NextRank ==
    \/ \E task \in RankDescChoices(seq + 1) : seq < RankMaxTasks /\ add_task("Monday", task)
    \/ \E date \in RankDates, task_id \in RankIds, completed \in BOOLEAN :
          task_id <= seq + 1 /\ update_progress(date, task_id, completed)

SpecRank == Init /\ [][NextRank]_vars

---------------------------------------------------------------------------
(* Facts about the calendar, known apart from the model: the weekday and   *)
(* the ISO-8601 week number of each date of Dates.                         *)

KnownDayName(date) ==
    CASE date = 20210103 -> "Sunday"
      [] date = 20240101 -> "Monday"
      [] date = 20240103 -> "Wednesday"
      [] date = 20250101 -> "Wednesday"

KnownIsoWeek(date) ==
    CASE date = 20210103 -> 53
      [] date = 20240101 -> 1
      [] date = 20240103 -> 1
      [] date = 20250101 -> 1

\* 0 <= rate <= 100 of a float that is a number
InRange(rate) == ~rate.nan /\ rate.den > 0 /\ 0 <= rate.num /\ rate.num <= 100 * rate.den

\* the float equals the quotient a / b
IsQuotient(rate, a, b) == ~rate.nan /\ rate.num * b = a * rate.den

RECURSIVE SumOf(_, _, _)
SumOf(rows, col, i) == IF i > Len(rows) THEN 0 ELSE rows[i][col] + SumOf(rows, col, i + 1)

\* the incomplete records joined to an existing task of the description
IncompleteOf(T, P, task) ==
    {p \in P : p.completed = 0 /\ \E t \in T : t.id = p.task_id /\ t.task = task}

\* the descriptions that have an incomplete record of an existing task
RankedDescs(T, P) == {t.task : t \in {x \in T : IncompleteOf(T, P, x.task) # {}}}

---------------------------------------------------------------------------
(* The claims.                                                             *)

\* C1: whenever the progress table is non-empty, every row of every view has
\* completed <= total and 0 <= rate <= 100: the overall figures, the Daily,
\* Weekly, Daywise (rows with records) and Heatmap rows of
\* calculate_statistics, and every percentage of get_weekly_progress.
C1_AllViewsBounded ==
    progress # {} =>
        LET s == calculate_statistics(progress)
            w == get_weekly_progress(tasks, progress)
        IN  /\ s.overall.completed_tasks <= s.overall.total_tasks
            /\ InRange(s.overall.completion_rate)
            /\ \A n \in DOMAIN s.daily :
                  /\ s.daily[n].Completed_Tasks <= s.daily[n].Total_Tasks
                  /\ InRange(s.daily[n].Daily_Completion_Rate)
            /\ \A n \in DOMAIN s.weekly :
                  /\ s.weekly[n].Completed_Tasks <= s.weekly[n].Total_Tasks
                  /\ InRange(s.weekly[n].Weekly_Completion_Rate)
            /\ \A n \in DOMAIN s.daywise :
                  ~s.daywise[n].Total_Tasks.nan =>
                      /\ s.daywise[n].Completed_Tasks.num <= s.daywise[n].Total_Tasks.num
                      /\ InRange(s.daywise[n].Daywise_Completion_Rate)
            /\ \A n \in DOMAIN s.heatmap :
                  s.heatmap[n].Completed_Tasks <= s.heatmap[n].Total_Tasks
            /\ \A n \in DOMAIN w : InRange(w[n].percentage)

\* C2: calculate_statistics returns None exactly when the progress table is
\* empty; with a record it returns an object with the five views, and for an
\* empty table never an object, zero-filled or empty.
C2_NoneIffEmpty ==
    [](LET s == calculate_statistics(progress)
       IN  /\ (s = None) <=> (progress = {})
           /\ progress # {} =>
                 DOMAIN s = {"overall", "daily", "weekly", "daywise", "heatmap"}
           /\ progress = {} => "overall" \notin DOMAIN s)

\* a reset has just removed the last records of the table
C2_Witness == last.op \in {"reset_progress", "reset_all_progress"} /\ last.n > 0 /\ progress = {}

\* C3: for a non-empty log the Daywise view has 7 rows, Monday to Sunday in
\* that order; a weekday no record's date falls on has NaN counts and rate,
\* not 0, and a weekday with records has the sum of the completed flags and
\* the number of the records that fall on it.
C3_Daywise ==
    [](progress # {} =>
           LET dw == calculate_statistics(progress).daywise
               order == <<"Monday", "Tuesday", "Wednesday", "Thursday", "Friday",
                          "Saturday", "Sunday">>
           IN  /\ Len(dw) = 7
               /\ \A n \in 1..7 :
                     LET recs == {r \in progress : KnownDayName(r.date) = order[n]}
                         done == {r \in recs : r.completed = 1}
                     IN  /\ dw[n].Day_Name = order[n]
                         /\ recs = {} =>
                               /\ dw[n].Completed_Tasks.nan
                               /\ dw[n].Total_Tasks.nan
                               /\ dw[n].Daywise_Completion_Rate.nan
                         /\ recs # {} =>
                               /\ dw[n].Completed_Tasks = Float(Cardinality(done), 1)
                               /\ dw[n].Total_Tasks = Float(Cardinality(recs), 1)
                               /\ IsQuotient(dw[n].Daywise_Completion_Rate,
                                             Cardinality(done) * 100, Cardinality(recs)))

\* records on a Sunday and a Wednesday only: Monday's row is NaN
C3_Witness ==
    /\ \E r \in progress : r.date = 20210103
    /\ \E r \in progress : r.date = 20250101 /\ r.completed = 1
    /\ calculate_statistics(progress).daywise[1].Total_Tasks.nan
    /\ calculate_statistics(progress).daywise[3].Total_Tasks = Float(1, 1)
    /\ calculate_statistics(progress).daywise[7].Day_Name = "Sunday"

\* C4: the Weekly view has one row per distinct ISO week number among the
\* record dates, ascending by week number, the year ignored: dates of one ISO
\* week give one row, and dates of different years with the same week number
\* share a row whose total counts the records of both years.
C4_Weekly ==
    [](progress # {} =>
           LET wk == calculate_statistics(progress).weekly
               weeks == {KnownIsoWeek(r.date) : r \in progress}
           IN  /\ Len(wk) = Cardinality(weeks)
               /\ \A n \in DOMAIN wk :
                     /\ wk[n].Week \in weeks
                     /\ wk[n].Total_Tasks =
                           Cardinality({r \in progress : KnownIsoWeek(r.date) = wk[n].Week})
                     /\ wk[n].Completed_Tasks =
                           Cardinality({r \in progress :
                                           KnownIsoWeek(r.date) = wk[n].Week /\ r.completed = 1})
               /\ \A m, n \in DOMAIN wk : m < n => wk[m].Week < wk[n].Week
               /\ (\A r, q \in progress :
                       to_datetime(r.date) - weekday(to_datetime(r.date))
                           = to_datetime(q.date) - weekday(to_datetime(q.date)))
                     => Len(wk) = 1)

\* week 1 of 2024 and week 1 of 2025 share the second row, after none, and
\* week 53 of the 2021 date comes last although its date is the earliest
C4_Witness ==
    /\ {r.date : r \in progress} = {20210103, 20240101, 20250101}
    /\ Len(calculate_statistics(progress).weekly) = 2
    /\ calculate_statistics(progress).weekly[1].Week = 1
    /\ calculate_statistics(progress).weekly[1].Total_Tasks = 2
    /\ calculate_statistics(progress).weekly[2].Week = 53

\* C5: every result of the frequently-incomplete query has at most 5 rows,
\* non-increasing in incomplete count, no description twice and a row for
\* every description with an incomplete record when there are at most 5 of
\* them; a row's count is the number of records with completed = 0 whose
\* task_id is that of an existing task of the description.
C5_Ranking ==
    LET ranked == RankedDescs(tasks, progress)
        rows == {[task |-> d,
                  incomplete_count |-> Cardinality(IncompleteOf(tasks, progress, d))] :
                     d \in ranked}
    IN  \A r \in incomplete_tasks(tasks, progress) :
            /\ Len(r) <= 5
            /\ \A i, j \in DOMAIN r : i < j => r[i].incomplete_count >= r[j].incomplete_count
            /\ \A i, j \in DOMAIN r : i # j => r[i].task # r[j].task
            /\ Cardinality(ranked) <= 5 => {r[i].task : i \in DOMAIN r} = ranked
            /\ \A i \in DOMAIN r : r[i] \in rows /\ r[i].incomplete_count > 0

\* six descriptions have incomplete records, one of them two: a result keeps
\* five rows, the first with the larger count
C5_Witness ==
    /\ Cardinality(RankedDescs(tasks, progress)) = 6
    /\ \E r \in incomplete_tasks(tasks, progress) :
          Len(r) = 5 /\ r[1].incomplete_count = 2 /\ r[5].incomplete_count = 1

\* the views of s count every row of P, whatever task it names
CountsEveryRow(s, P) ==
    /\ s.overall.total_tasks = Cardinality(P)
    /\ SumOf(s.daily, "Total_Tasks", 1) = Cardinality(P)
    /\ SumOf(s.weekly, "Total_Tasks", 1) = Cardinality(P)
    /\ SumOf(s.heatmap, "Total_Tasks", 1) = Cardinality(P)
    /\ \A n \in DOMAIN s.daywise :
          s.daywise[n].Total_Tasks.nan \/
              s.daywise[n].Total_Tasks.num =
                  Cardinality({r \in P : KnownDayName(r.date) = s.daywise[n].Day_Name})

\* the rows of a ranking count the incomplete records of the tasks of T only
CountsTasksOf(r, T, P) ==
    \A i \in DOMAIN r :
        r[i].incomplete_count =
            Cardinality({p \in P : /\ p.completed = 0
                                   /\ \E t \in T : t.id = p.task_id /\ t.task = r[i].task})

\* C6: delete_task removes the task row alone and leaves the progress table,
\* and so what calculate_statistics reads, as it was; after it
\* calculate_statistics gives a result whose views still count every record,
\* those of the deleted task too, and the frequently-incomplete query counts
\* no record whose task_id has no task.
C6_DeleteNoCascade ==
    /\ [][\A task_id \in TaskIds :
            (last'.op = "delete_task" /\ delete_task(task_id)) =>
                /\ tasks' = {t \in tasks : t.id # task_id}
                /\ progress' = progress
         ]_vars
    /\ [](last.op = "delete_task" =>
            /\ progress # {} =>
                  /\ calculate_statistics(progress) # None
                  /\ CountsEveryRow(calculate_statistics(progress), progress)
            /\ \A r \in incomplete_tasks(tasks, progress) :
                  /\ CountsTasksOf(r, tasks, progress)
                  /\ \A i \in DOMAIN r : \E t \in tasks : t.task = r[i].task)

\* the only task has just been deleted and its incomplete record remains
C6_Witness ==
    /\ last = Last("delete_task", 1)
    /\ seq = 1
    /\ tasks = {}
    /\ \E p \in progress : p.task_id = 1 /\ p.completed = 0
    /\ calculate_statistics(progress) # None
    /\ incomplete_tasks(tasks, progress) = {<<>>}

\* C7: the progress table never holds two rows of one (date, task_id);
\* update_progress leaves exactly one row of its pair, with the value written,
\* leaves the rows of the other pairs as they were, and done again with the
\* same arguments changes nothing.
C7_Upsert ==
    /\ [](\A r, q \in progress : (r.date = q.date /\ r.task_id = q.task_id) => r = q)
    /\ [][\A date \in Dates, task_id \in TaskIds, completed \in BOOLEAN :
            (last'.op = "update_progress" /\ update_progress(date, task_id, completed)) =>
                /\ {r \in progress' : r.date = date /\ r.task_id = task_id}
                      = {[date |-> date, task_id |-> task_id,
                          completed |-> IF completed THEN 1 ELSE 0]}
                /\ {r \in progress' : ~(r.date = date /\ r.task_id = task_id)}
                      = {r \in progress : ~(r.date = date /\ r.task_id = task_id)}
                /\ insert_or_replace(progress', date, task_id, completed) = progress'
      ]_vars

\* update_progress has just written a row beside the rows of other pairs
C7_Witness ==
    /\ last.op = "update_progress"
    /\ Cardinality(progress) = 3
    /\ \E r, q \in progress : r.date = q.date /\ r.task_id # q.task_id

\* C8: reset_progress(date) deletes the rows of the date, leaving none of them
\* behind as false, and keeps the other rows and the tasks table;
\* reset_all_progress empties the progress table and keeps the tasks table;
\* a step that is not a reset of a row's date keeps a row of its pair.
C8_Resets ==
    [][/\ \A date \in Dates :
             (last'.op = "reset_progress" /\ reset_progress(date)) =>
                 /\ progress' = {r \in progress : r.date # date}
                 /\ ~\E r \in progress' : r.date = date
                 /\ tasks' = tasks
       /\ (last'.op = "reset_all_progress" /\ reset_all_progress) =>
             (progress' = {} /\ tasks' = tasks)
       /\ \A r \in progress \ progress' :
             (~\E q \in progress' : q.date = r.date /\ q.task_id = r.task_id) =>
                 \/ last'.op = "reset_all_progress"
                 \/ /\ last'.op \in {"reset_progress", "show_today_tasks_reset"}
                    /\ progress' = {q \in progress : q.date # r.date}
    ]_vars

\* reset_progress has just deleted the rows of one date and kept another's
C8_Witness == last.op = "reset_progress" /\ last.n = 2 /\ Cardinality(progress) = 1

\* C9: for a non-empty log the Daily view has one row per distinct date,
\* ascending by date; a row's total is the number of records of the date, its
\* completed count the number of them with completed = 1, its rate
\* completed / total * 100, and the rows' totals and completed counts add up
\* to the overall total_tasks and completed_tasks.
C9_Daily ==
    [](progress # {} =>
           LET s == calculate_statistics(progress)
               dates == {r.date : r \in progress}
           IN  /\ Len(s.daily) = Cardinality(dates)
               /\ \A n \in DOMAIN s.daily :
                     \E date \in dates :
                         LET recs == {r \in progress : r.date = date}
                             done == {r \in recs : r.completed = 1}
                         IN  /\ s.daily[n].Date = to_datetime(date)
                             /\ Cardinality({d \in dates : d < date}) = n - 1
                             /\ s.daily[n].Total_Tasks = Cardinality(recs)
                             /\ s.daily[n].Completed_Tasks = Cardinality(done)
                             /\ IsQuotient(s.daily[n].Daily_Completion_Rate,
                                           Cardinality(done) * 100, Cardinality(recs))
               /\ \A m, n \in DOMAIN s.daily : m < n => s.daily[m].Date < s.daily[n].Date
               /\ SumOf(s.daily, "Total_Tasks", 1) = s.overall.total_tasks
               /\ SumOf(s.daily, "Completed_Tasks", 1) = s.overall.completed_tasks
               /\ s.overall.total_tasks = Cardinality(progress)
               /\ s.overall.completed_tasks = Cardinality({r \in progress : r.completed = 1}))

\* two dates, the earlier with two records of which one is completed, and no
\* task assigned to any weekday: the totals are those of the records
C9_Witness ==
    /\ tasks = {}
    /\ Cardinality({r \in progress : r.date = 20240101}) = 2
    /\ Cardinality({r \in progress : r.date = 20240101 /\ r.completed = 1}) = 1
    /\ Cardinality({r \in progress : r.date = 20250101}) = 1
    /\ Len(calculate_statistics(progress).daily) = 2
    /\ calculate_statistics(progress).daily[1].Total_Tasks = 2
    /\ calculate_statistics(progress).daily[1].Daily_Completion_Rate = Float(100, 2)

\* C10: a run of show_today_tasks without the reset click leaves a progress
\* row (today, t) for every task t of today's weekday, whatever the
\* checkboxes; after the reset click only the rerun runs, and when it has
\* finished the table again holds a row for each of today's tasks.
C10_RenderUpserts ==
    [][/\ \A now \in Dates, flips \in SUBSET TaskIds :
             (last'.op \in {"show_today_tasks", "show_today_tasks_rerun"}
                  /\ show_today_tasks(now, FALSE, flips)) =>
                 \A t \in get_tasks(tasks, KnownDayName(now)) :
                     \E r \in progress' : r.date = now /\ r.task_id = t.id
       /\ pc = "rerun" =>
             /\ last.op = "show_today_tasks_reset"
             /\ last'.op = "show_today_tasks_rerun"
             /\ \E now \in Dates, flips \in SUBSET TaskIds :
                   show_today_tasks(now, FALSE, flips)
    ]_vars

\* the rerun after a reset click has finished with two tasks assigned to today
C10_Witness ==
    /\ last = Last("show_today_tasks_rerun", 2)
    /\ Cardinality(progress) >= 2

====
